---- MODULE Spec2Model ----
(***************************************************************************)
(* PDF ingestion subsystem of llm-service: the intake controller           *)
(* (upload-url, process, retry), the file_uploads registry, the BullMQ     *)
(* 'pdf-ingestion' queue and the IngestionProcessor worker pipeline.       *)
(*                                                                         *)
(* Request handlers and the worker are async functions; each action below  *)
(* is the code between two awaits that touch shared state (registry,       *)
(* queue, object store, vector store), so the interleavings TLC explores   *)
(* are those the event loop and separate pods can produce.                 *)
(***************************************************************************)
EXTENDS Integers, Sequences, FiniteSets, TLC

\* ---------------------------------------------------------------- bounds
MaxJobs == 2        \* jobs ever added to the queue
MaxReqs == 2        \* request handlers in flight at the same time
MaxClock == 1       \* Date.now() ranges over 0..MaxClock
MaxWorkers == 2     \* jobs that worker pods process at the same time
MaxFaults == 2      \* collaborator calls that fail in one execution
MaxDocLen == 2      \* initial chunks of a document in the chunking runs
MaxChunkCount == 40 \* valid chunks for which the progress formula is tabulated

\* ------------------------------------------------------------- constants
ExpiresIn == 3600               \* upload URL expiry, seconds
MinChunkLen == 10               \* chunks shorter than this are dropped
MaxChunkLen == 1500             \* chunks longer than this are re-split

Hashes == {"h1", "h2"}
FileNames == {"doc.pdf"}
Users == {"u1"}
NULL == "null"          \* a null string column / an absent message
NullCount == -1         \* a null integer column
NoJob == 0              \* no job id (BullMQ ids are 1, 2, ...)
NoKey == <<>>           \* no object key

\* What findOne() yields when no row matches (null): `row?.status` is then
\* undefined, written "none".
NoRow == [id |-> 0, status |-> "none", job_id |-> NoJob]

\* An object key `pdfs/${fileHash}-${Date.now()}-${fileName}`.
ObjectKey(fileHash, ts, fileName) == <<"pdfs", fileHash, ts, fileName>>

Keys == {ObjectKey(h, t, f) : h \in Hashes, t \in 0..MaxClock, f \in FileNames}

KeyHash(k) == k[2]

\* ------------------------------------------------------- document content
\* A chunk's pageContent is abstracted to an identity (src: index of the
\* initial chunk, part: index of the sub-chunk, 0 when not re-split), the
\* length of its trimmed text (len) and the amount of surrounding
\* whitespace (pad).  For an oversized chunk, pieces are the lengths the
\* library splitter (chunkSize 1500, overlap 50) returns for that text and
\* splitThrows says that the splitter throws on it.
Chunk(src, len, pad, pieces, splitThrows) ==
    [src |-> src, part |-> 0, len |-> len, pad |-> pad,
     pieces |-> pieces, splitThrows |-> splitThrows]

\* String.prototype.trim(): drops the surrounding whitespace.
Trim(c) == [c EXCEPT !.pad = 0]

\* String.prototype.length
Length(c) == c.len + c.pad

\* The documents a content hash may stand for: the initial chunk sets that
\* PDFLoader + RecursiveCharacterTextSplitter(600, 100) produce.
EmptyPdf == <<>>
NoisePdf == <<Chunk(1, 5, 6, <<>>, FALSE)>>
PlainPdf == <<Chunk(1, 600, 0, <<>>, FALSE), Chunk(2, 3, 0, <<>>, FALSE),
              Chunk(3, 420, 2, <<>>, FALSE)>>
BigPdf == <<Chunk(1, 4, 1, <<>>, FALSE), Chunk(2, 2000, 0, <<1500, 550>>, FALSE)>>

\* The document sets the model is run with: h1 is a document with a noise
\* chunk and an oversized chunk, h2 a document without usable text.
Libraries == {[h \in Hashes |-> IF h = "h1" THEN BigPdf ELSE NoisePdf]}

VARIABLES
    now,        \* wall clock read by Date.now()
    pdf,        \* the document behind each content hash (fixed at start)
    objects,    \* Content Store (R2 bucket): the keys that hold an object
    records,    \* file_uploads table: sequence of rows, in insertion order
    jobs,       \* 'pdf-ingestion' queue: job i has id i
    runs,       \* worker-local state of process(job i)
    tmpFiles,   \* temp files present on the worker's disk (by job id)
    points,     \* Qdrant collection 'documents'
    reqs,       \* request handlers in flight (suspended at an await)
    resp,       \* the HTTP response sent by the last step (NoResp if none)
    issued,     \* object keys for which an upload URL was issued
    faults      \* collaborator calls that have failed so far

vars == <<now, pdf, objects, records, jobs, runs, tmpFiles, points, reqs,
          resp, issued, faults>>

\* ---------------------------------------------------------- IngestionService
\* findOne({where: {content_hash}}): the first matching row or NULL.
RowsByHash(rs, contentHash) ==
    {i \in 1..Len(rs) : rs[i].content_hash = contentHash}

findByHash(contentHash) ==
    IF RowsByHash(records, contentHash) = {} THEN NoRow
    ELSE records[CHOOSE i \in RowsByHash(records, contentHash) :
                     \A k \in RowsByHash(records, contentHash) : i <= k]

findByJobId(jobId) ==
    IF \E i \in 1..Len(records) : records[i].job_id = jobId
    THEN records[CHOOSE i \in 1..Len(records) : records[i].job_id = jobId]
    ELSE NoRow

\* The unique constraints of the entity: content_hash and job_id.
UniqueViolation(data) ==
    \E i \in 1..Len(records) :
        \/ records[i].content_hash = data.content_hash
        \/ records[i].job_id = data.job_id

\* repository.save(repository.create(data)): INSERT of a new row with a
\* generated id; chunk_count and error_message are null.
\* The rows after a successful insert.
create(data) ==
    Append(records,
           [id |-> Len(records) + 1,
            content_hash |-> data.content_hash,
            original_filename |-> data.original_filename,
            uploaded_by |-> data.uploaded_by,
            job_id |-> data.job_id,
            r2_object_key |-> data.r2_object_key,
            status |-> data.status,
            chunk_count |-> NullCount,
            error_message |-> NULL])

\* A save() against a table without the unique constraints.
createOkUnchecked(data) == TRUE

\* Whether save() succeeds: the database rejects a duplicate key.
createOk(data) == ~UniqueViolation(data)

\* An update whose where-clause is lost: every row is written.
updateStatusAllRows(contentHash, status, chunkCount, errorMessage) ==
    [i \in 1..Len(records) |->
        [records[i] EXCEPT
            !.status = status,
            !.chunk_count = chunkCount,
            !.error_message = IF errorMessage = NULL THEN @ ELSE errorMessage]]

\* repository.update({content_hash}, {status, chunk_count, error_message}):
\* TypeORM leaves out properties that are undefined, so a 'completed' update
\* keeps the row's error_message; no matching row is not an error.
updateStatus(contentHash, status, chunkCount, errorMessage) ==
    [i \in 1..Len(records) |->
        IF records[i].content_hash = contentHash
        THEN [records[i] EXCEPT
                 !.status = status,
                 !.chunk_count = chunkCount,
                 !.error_message =
                     IF errorMessage = NULL THEN @ ELSE errorMessage]
        ELSE records[i]]

\* ------------------------------------------------------------------ queue
PdfJobData(objectKey, fileName, fileHash, userId) ==
    [objectKey |-> objectKey, fileName |-> fileName,
     fileHash |-> fileHash, userId |-> userId]

NoReturn == [status |-> "none", totalChunks |-> 0, processedChunks |-> 0,
             fileHash |-> NULL]

\* The worker's locals for a job that no worker has picked up yet.
IdleRun == [pc |-> "idle", tempPath |-> FALSE, embeddings |-> <<>>,
            i |-> 0, error |-> NULL, nPoints |-> 0]

\* After process() has returned or thrown its locals are gone.
DoneRun == [IdleRun EXCEPT !.pc = "done"]

\* pdfQueue.add('process-pdf', data): a new waiting job with the next id.
QueueAdd(data) ==
    Append(jobs, [data |-> data, state |-> "waiting", progress |-> 0,
                  returnvalue |-> NoReturn, failedReason |-> NULL])

NewJobId == Len(jobs) + 1

\* pdfQueue.getJob(jobId) finds a job exactly when the id was handed out.
JobExists(jobId) == jobId \in 1..Len(jobs)

\* --------------------------------------------------------------- requests
\* An HTTP response, with the request it answers (op, fileHash, forJob).
Resp(op, fileHash, forJob, status, jobId, objectKey, skipUpload, expiresIn, metadata) ==
    [op |-> op, fileHash |-> fileHash, forJob |-> forJob, status |-> status,
     jobId |-> jobId, objectKey |-> objectKey, skipUpload |-> skipUpload,
     expiresIn |-> expiresIn, metadata |-> metadata]

NoResp == Resp("none", NULL, NoJob, "none", NoJob, NoKey, FALSE, 0, 0)

\* A handler suspended at an await: pc "add" before pdfQueue.add, "create"
\* before ingestionService.create.  jobId is retry's :jobId, newJob the id
\* of the job the handler added.
Req(op, fileHash, fileName, userId, objectKey, jobId, pc, newJob) ==
    [op |-> op, fileHash |-> fileHash, fileName |-> fileName,
     userId |-> userId, objectKey |-> objectKey, jobId |-> jobId,
     pc |-> pc, newJob |-> newJob]

\* The handlers in flight without handler r, which has returned.
Returned(r) == [k \in 1..(Len(reqs) - 1) |-> IF k < r THEN reqs[k] ELSE reqs[k + 1]]

\* Jobs that in-flight handlers are still going to add.
PendingAdds == Cardinality({r \in 1..Len(reqs) : reqs[r].pc = "add"})

\* A getUploadUrl that answers 'duplicate' for every existing row, whatever
\* its status.
UploadResponseAnyRow(existingFile, fileHash, fileName, ts) ==
    IF existingFile.status # "none"
    THEN Resp("upload", fileHash, NoJob, "duplicate", NoJob, NoKey, TRUE, 0,
              existingFile.id)
    ELSE Resp("upload", fileHash, NoJob, "uploadUrl", NoJob,
              ObjectKey(fileHash, ts, fileName), FALSE, ExpiresIn, 0)

\* getUploadUrl's response as a function of the row findByHash returned and
\* of Date.now().
UploadResponse(existingFile, fileHash, fileName, ts) ==
    IF existingFile.status = "completed"
    THEN Resp("upload", fileHash, NoJob, "duplicate", NoJob, NoKey, TRUE, 0,
              existingFile.id)
    ELSE IF existingFile.status = "processing"
    THEN Resp("upload", fileHash, NoJob, "processing", existingFile.job_id,
              NoKey, TRUE, 0, 0)
    ELSE Resp("upload", fileHash, NoJob, "uploadUrl", NoJob,
              ObjectKey(fileHash, ts, fileName), FALSE, ExpiresIn, 0)

\* A getUploadUrl that registers the file when it issues an upload URL.
getUploadUrlRegisters(fileName, fileHash) ==
    /\ resp' = UploadResponse(findByHash(fileHash), fileHash, fileName, now)
    /\ issued' = IF resp'.status = "uploadUrl"
                 THEN issued \cup {resp'.objectKey} ELSE issued
    /\ records' = IF findByHash(fileHash).status = "none"
                  THEN create([content_hash |-> fileHash,
                               original_filename |-> fileName,
                               uploaded_by |-> NULL, job_id |-> NoJob,
                               r2_object_key |-> ObjectKey(fileHash, now, fileName),
                               status |-> "processing"])
                  ELSE records
    /\ UNCHANGED <<now, pdf, objects, jobs, runs, tmpFiles, points, reqs,
                   faults>>

\* POST /ingestion/upload-url.  The handler reads the registry once
\* (findByHash) and writes nothing; signing the URL is local, so the whole
\* handler is one step taken at the read.
getUploadUrl(fileName, fileHash) ==
    /\ resp' = UploadResponse(findByHash(fileHash), fileHash, fileName, now)
    /\ issued' = IF resp'.status = "uploadUrl"
                 THEN issued \cup {resp'.objectKey} ELSE issued
    /\ UNCHANGED <<now, pdf, objects, records, jobs, runs, tmpFiles, points,
                   reqs, faults>>

\* The client PUTs the file to a pre-signed URL it was given.
ClientUpload(k) ==
    /\ k \in issued
    /\ k \notin objects
    /\ objects' = objects \cup {k}
    /\ resp' = NoResp
    /\ UNCHANGED <<now, pdf, records, jobs, runs, tmpFiles, points, reqs,
                   issued, faults>>

\* A triggerProcessing without the duplicate check.
triggerProcessingUnchecked(objectKey, fileName, fileHash, userId) ==
    /\ Len(jobs) + PendingAdds < MaxJobs
    /\ Len(reqs) < MaxReqs
    /\ reqs' = Append(reqs, Req("trigger", fileHash, fileName, userId,
                                objectKey, NoJob, "add", NoJob))
    /\ resp' = NoResp
    /\ UNCHANGED <<now, pdf, objects, records, jobs, runs, tmpFiles, points,
                   issued, faults>>

\* POST /ingestion/process, up to the duplicate check: "Verify not already
\* processing".
triggerProcessing(objectKey, fileName, fileHash, userId) ==
    /\ LET existingFile == findByHash(fileHash) IN
       IF existingFile.status = "processing"
       THEN /\ resp' = Resp("trigger", fileHash, NoJob, "already_processing",
                            existingFile.job_id, NoKey, FALSE, 0, 0)
            /\ reqs' = reqs
       ELSE /\ Len(jobs) + PendingAdds < MaxJobs
            /\ Len(reqs) < MaxReqs
            /\ reqs' = Append(reqs, Req("trigger", fileHash, fileName, userId,
                                        objectKey, NoJob, "add", NoJob))
            /\ resp' = NoResp
    /\ UNCHANGED <<now, pdf, objects, records, jobs, runs, tmpFiles, points,
                   issued, faults>>

\* A triggerProcessing that saves the record, with the id the job is going
\* to get, before it adds the job.
triggerEnqueueRecordFirst(r) ==
    /\ r \in 1..Len(reqs)
    /\ reqs[r].op = "trigger" /\ reqs[r].pc = "add"
    /\ records' = IF RowsByHash(records, reqs[r].fileHash) = {}
                  THEN create([content_hash |-> reqs[r].fileHash,
                               original_filename |-> reqs[r].fileName,
                               uploaded_by |-> reqs[r].userId,
                               job_id |-> NewJobId,
                               r2_object_key |-> reqs[r].objectKey,
                               status |-> "processing"])
                  ELSE records
    /\ reqs' = [reqs EXCEPT ![r].pc = "create", ![r].newJob = NewJobId]
    /\ resp' = NoResp
    /\ UNCHANGED <<now, pdf, objects, jobs, runs, tmpFiles, points, issued, faults>>

\* triggerProcessing, "Enqueue job".
triggerEnqueue(r) ==
    /\ r \in 1..Len(reqs)
    /\ reqs[r].op = "trigger" /\ reqs[r].pc = "add"
    /\ jobs' = QueueAdd(PdfJobData(reqs[r].objectKey, reqs[r].fileName,
                                   reqs[r].fileHash, reqs[r].userId))
    /\ runs' = Append(runs, IdleRun)
    /\ reqs' = [reqs EXCEPT ![r].pc = "create", ![r].newJob = NewJobId]
    /\ resp' = NoResp
    /\ UNCHANGED <<now, pdf, objects, records, tmpFiles, points, issued, faults>>

\* The row both handlers insert for a newly added job.
NewRecord(req) ==
    [content_hash |-> req.fileHash, original_filename |-> req.fileName,
     uploaded_by |-> req.userId, job_id |-> req.newJob,
     r2_object_key |-> req.objectKey, status |-> "processing"]

\* ingestionService.create(...) at the end of a handler and its response:
\* 'queued', or a 500 when save() rejects and the handler throws.
SaveAndRespond(r) ==
    /\ IF createOk(NewRecord(reqs[r]))
       THEN /\ records' = create(NewRecord(reqs[r]))
            /\ resp' = Resp(reqs[r].op, reqs[r].fileHash, reqs[r].jobId,
                            "queued", reqs[r].newJob, NoKey, FALSE, 0, 0)
       ELSE /\ records' = records
            /\ resp' = Resp(reqs[r].op, reqs[r].fileHash, reqs[r].jobId,
                            "exception", NoJob, NoKey, FALSE, 0, 0)
    /\ reqs' = Returned(r)

\* triggerProcessing, "Save metadata to database".
triggerSave(r) ==
    /\ r \in 1..Len(reqs)
    /\ reqs[r].op = "trigger" /\ reqs[r].pc = "create"
    /\ SaveAndRespond(r)
    /\ UNCHANGED <<now, pdf, objects, jobs, runs, tmpFiles, points, issued, faults>>

\* A retryJob that also clears the result of the job it retries.
retryJobClearsOriginal(jobId) ==
    /\ IF ~JobExists(jobId)
       THEN /\ resp' = Resp("retry", NULL, jobId, "not_found", NoJob, NoKey,
                            FALSE, 0, 0)
            /\ UNCHANGED <<jobs, runs, reqs>>
       ELSE IF jobs[jobId].state # "failed" /\ jobs[jobId].state # "completed"
       THEN /\ resp' = Resp("retry", jobs[jobId].data.fileHash, jobId, "error",
                            NoJob, NoKey, FALSE, 0, 0)
            /\ UNCHANGED <<jobs, runs, reqs>>
       ELSE /\ Len(jobs) + PendingAdds < MaxJobs
            /\ Len(reqs) < MaxReqs
            /\ jobs' = Append([jobs EXCEPT ![jobId].returnvalue = NoReturn,
                                           ![jobId].failedReason = NULL],
                              [data |-> jobs[jobId].data, state |-> "waiting",
                               progress |-> 0, returnvalue |-> NoReturn,
                               failedReason |-> NULL])
            /\ runs' = Append(runs, IdleRun)
            /\ reqs' = Append(reqs,
                   Req("retry", jobs[jobId].data.fileHash,
                       jobs[jobId].data.fileName, jobs[jobId].data.userId,
                       jobs[jobId].data.objectKey, jobId, "create", NewJobId))
            /\ resp' = NoResp
    /\ UNCHANGED <<now, pdf, objects, records, tmpFiles, points, issued, faults>>

\* A retryJob without the state check: any job that exists is retried.
retryJobAnyState(jobId) ==
    /\ IF ~JobExists(jobId)
       THEN /\ resp' = Resp("retry", NULL, jobId, "not_found", NoJob, NoKey,
                            FALSE, 0, 0)
            /\ UNCHANGED <<jobs, runs, reqs>>
       ELSE /\ Len(jobs) + PendingAdds < MaxJobs
            /\ Len(reqs) < MaxReqs
            /\ jobs' = QueueAdd(jobs[jobId].data)
            /\ runs' = Append(runs, IdleRun)
            /\ reqs' = Append(reqs,
                   Req("retry", jobs[jobId].data.fileHash,
                       jobs[jobId].data.fileName, jobs[jobId].data.userId,
                       jobs[jobId].data.objectKey, jobId, "create", NewJobId))
            /\ resp' = NoResp
    /\ UNCHANGED <<now, pdf, objects, records, tmpFiles, points, issued, faults>>

\* POST /ingestion/retry/:jobId up to "Create new job with same data".  A
\* job's data never changes and a failed or completed state is final, so
\* getJob, getState and add are one step.
retryJob(jobId) ==
    /\ IF ~JobExists(jobId)
       THEN /\ resp' = Resp("retry", NULL, jobId, "not_found", NoJob, NoKey,
                            FALSE, 0, 0)
            /\ UNCHANGED <<jobs, runs, reqs>>
       ELSE IF jobs[jobId].state # "failed" /\ jobs[jobId].state # "completed"
       THEN /\ resp' = Resp("retry", jobs[jobId].data.fileHash, jobId, "error",
                            NoJob, NoKey, FALSE, 0, 0)
            /\ UNCHANGED <<jobs, runs, reqs>>
       ELSE /\ Len(jobs) + PendingAdds < MaxJobs
            /\ Len(reqs) < MaxReqs
            /\ jobs' = QueueAdd(PdfJobData(jobs[jobId].data.objectKey,
                                           jobs[jobId].data.fileName,
                                           jobs[jobId].data.fileHash,
                                           jobs[jobId].data.userId))
            /\ runs' = Append(runs, IdleRun)
            /\ reqs' = Append(reqs,
                   Req("retry", jobs[jobId].data.fileHash,
                       jobs[jobId].data.fileName, jobs[jobId].data.userId,
                       jobs[jobId].data.objectKey, jobId, "create", NewJobId))
            /\ resp' = NoResp
    /\ UNCHANGED <<now, pdf, objects, records, tmpFiles, points, issued, faults>>

\* retryJob, "Update database with new job ID": the same insert as in
\* triggerProcessing.
retrySave(r) ==
    /\ r \in 1..Len(reqs)
    /\ reqs[r].op = "retry" /\ reqs[r].pc = "create"
    /\ SaveAndRespond(r)
    /\ UNCHANGED <<now, pdf, objects, jobs, runs, tmpFiles, points, issued, faults>>

\* GET /ingestion/status/:jobId for a job that exists: the job's fields and,
\* as metadata, the record that carries the job id (null if none does).
getStatus(jobId) ==
    [id |-> jobId, status |-> jobs[jobId].state,
     progress |-> jobs[jobId].progress, result |-> jobs[jobId].returnvalue,
     failedReason |-> jobs[jobId].failedReason,
     metadata |-> findByJobId(jobId)]

\* Time passes.
Tick ==
    /\ now < MaxClock
    /\ now' = now + 1
    /\ resp' = NoResp
    /\ UNCHANGED <<pdf, objects, records, jobs, runs, tmpFiles, points, reqs,
                   issued, faults>>

\* ----------------------------------------------------------------- worker
\* A splitOversizedChunk that loses the chunk when the splitter throws.
splitOversizedChunkDropsOnThrow(chunk) ==
    IF chunk.splitThrows THEN <<>>
    ELSE [p \in 1..Len(chunk.pieces) |->
             [chunk EXCEPT !.part = p, !.len = chunk.pieces[p],
                           !.pieces = <<>>]]

\* splitOversizedChunk: the sub-chunks the splitter returns, or the chunk
\* itself when the splitter throws.
splitOversizedChunk(chunk) ==
    IF chunk.splitThrows THEN <<chunk>>
    ELSE [p \in 1..Len(chunk.pieces) |->
             [chunk EXCEPT !.part = p, !.len = chunk.pieces[p],
                           !.pieces = <<>>]]

\* The validation loop of process(): validChunks for the initial chunks.
RECURSIVE ValidChunks(_)
ValidChunks(chunks) ==
    IF chunks = <<>> THEN <<>>
    ELSE LET content == Trim(Head(chunks)) IN
         IF Length(content) < MinChunkLen THEN ValidChunks(Tail(chunks))
         ELSE IF Length(content) > MaxChunkLen
         THEN splitOversizedChunk(content) \o ValidChunks(Tail(chunks))
         ELSE <<content>> \o ValidChunks(Tail(chunks))

\* validChunks of the run of job j.
JobChunks(j) == ValidChunks(pdf[jobs[j].data.fileHash])

\* The embedding of a chunk's text; <<>> stands for null.
Vec(chunk) == <<chunk.src, chunk.part>>
NullVec == <<>>

\* `embeddings[i]` for a 0-based i: undefined (falsy) past the end.
EmbeddingAt(embeddings, i) ==
    IF i + 1 <= Len(embeddings) THEN embeddings[i + 1] ELSE NullVec

\* Points built without the content hash in their payload.
ValidPointsUntagged(j, embeddings) ==
    {[id |-> <<j, i>>,
      vector |-> EmbeddingAt(embeddings, i),
      page_content |-> Vec(JobChunks(j)[i + 1]),
      content_hash |-> NULL,
      chunk_index |-> i,
      r2_object_key |-> jobs[j].data.objectKey] :
        i \in {k \in 0..(Len(JobChunks(j)) - 1) :
                  EmbeddingAt(embeddings, k) # NullVec}}

\* validPoints: one point per valid chunk whose embeddings[i] is truthy,
\* with a fresh id.
ValidPoints(j, embeddings) ==
    {[id |-> <<j, i>>,
      vector |-> EmbeddingAt(embeddings, i),
      page_content |-> Vec(JobChunks(j)[i + 1]),
      content_hash |-> jobs[j].data.fileHash,
      chunk_index |-> i,
      r2_object_key |-> jobs[j].data.objectKey] :
        i \in {k \in 0..(Len(JobChunks(j)) - 1) :
                  EmbeddingAt(embeddings, k) # NullVec}}

\* What process() passes to updateStatus as chunkCount.
CompletedCount(j) == runs[j].nPoints

\* A progress formula that is not scaled by the number of chunks.
FallbackProgressUnscaled(i, n) == 50 + (i * 30)

\* The progress reported after chunk i (0-based) of n in the fallback loop.
FallbackProgress(i, n) == 50 + ((i * 30) \div n)

\* Jobs are taken in FIFO order by a free worker.
ActiveJobs == {j \in 1..Len(jobs) : jobs[j].state = "active"}

\* A collaborator call fails only while the execution's budget allows it.
Injected(fault) ==
    /\ fault => faults < MaxFaults
    /\ faults' = IF fault THEN faults + 1 ELSE faults

Throw(j, message) ==
    runs' = [runs EXCEPT ![j].pc = "catch", ![j].error = message]

\* A worker takes the job: 'active', then updateProgress(10).
Start(j) ==
    /\ j \in 1..Len(jobs)
    /\ resp' = NoResp
    /\ jobs[j].state = "waiting"
    /\ \A k \in 1..(j - 1) : jobs[k].state # "waiting"
    /\ Cardinality(ActiveJobs) < MaxWorkers
    /\ jobs' = [jobs EXCEPT ![j].state = "active", ![j].progress = 10]
    /\ runs' = [runs EXCEPT ![j].pc = "download"]
    /\ UNCHANGED <<now, pdf, objects, records, tmpFiles, points, reqs, issued, faults>>

\* "1. Download from R2", "2. Save to temp file", updateProgress(30).
Download(j, fault) ==
    /\ j \in 1..Len(jobs)
    /\ resp' = NoResp
    /\ Injected(fault) /\ runs[j].pc = "download"
    /\ IF fault \/ jobs[j].data.objectKey \notin objects
       THEN /\ Throw(j, "Storage download failed")
            /\ UNCHANGED <<jobs, tmpFiles>>
       ELSE /\ runs' = [runs EXCEPT ![j].pc = "load", ![j].tempPath = TRUE]
            /\ tmpFiles' = tmpFiles \cup {j}
            /\ jobs' = [jobs EXCEPT ![j].progress = 30]
    /\ UNCHANGED <<now, pdf, objects, records, points, reqs, issued>>

\* "3. Load and chunk PDF", temp file clean-up, the validation loop, the
\* empty-document check and updateProgress(50).
Load(j, fault) ==
    /\ j \in 1..Len(jobs)
    /\ resp' = NoResp
    /\ Injected(fault) /\ runs[j].pc = "load"
    /\ IF fault
       THEN /\ Throw(j, "PDF load failed")
            /\ UNCHANGED <<jobs, tmpFiles>>
       ELSE /\ tmpFiles' = tmpFiles \ {j}
            /\ IF Len(JobChunks(j)) = 0
               THEN /\ runs' = [runs EXCEPT ![j].pc = "catch",
                                   ![j].tempPath = FALSE,
                                   ![j].error = "No valid chunks found in PDF"]
                    /\ UNCHANGED jobs
               ELSE /\ runs' = [runs EXCEPT ![j].pc = "embed",
                                            ![j].tempPath = FALSE]
                    /\ jobs' = [jobs EXCEPT ![j].progress = 50]
    /\ UNCHANGED <<now, pdf, objects, records, points, reqs, issued>>

\* "4. Batch embed with fallback": embedDocuments over all valid chunks.
EmbedBatch(j, fault) ==
    /\ j \in 1..Len(jobs)
    /\ resp' = NoResp
    /\ Injected(fault) /\ runs[j].pc = "embed"
    /\ IF fault
       THEN runs' = [runs EXCEPT ![j].pc = "fallback", ![j].i = 0,
                                 ![j].embeddings = <<>>]
       ELSE runs' = [runs EXCEPT ![j].pc = "persist",
                        ![j].embeddings =
                            [k \in 1..Len(JobChunks(j)) |-> Vec(JobChunks(j)[k])]]
    /\ UNCHANGED <<now, pdf, objects, records, jobs, tmpFiles, points, reqs, issued>>

\* A fallback loop without its try/catch: a failing chunk aborts the run.
EmbedOneAborts(j, outcome) ==
    /\ j \in 1..Len(jobs)
    /\ resp' = NoResp
    /\ Injected(outcome # "ok") /\ runs[j].pc = "fallback"
    /\ runs[j].i < Len(JobChunks(j))
    /\ IF outcome = "ok"
       THEN /\ runs' = [runs EXCEPT
                    ![j].embeddings = @ \o <<Vec(JobChunks(j)[runs[j].i + 1])>>,
                    ![j].i = runs[j].i + 1,
                    ![j].pc = IF runs[j].i + 1 < Len(JobChunks(j))
                              THEN "fallback" ELSE "persist"]
            /\ jobs' = [jobs EXCEPT
                    ![j].progress = 50 + ((runs[j].i * 30) \div Len(JobChunks(j)))]
       ELSE /\ Throw(j, "Embedding failed")
            /\ UNCHANGED jobs
    /\ UNCHANGED <<now, pdf, objects, records, tmpFiles, points, reqs, issued>>

\* A fallback loop that tries a chunk again when its embedding call throws.
EmbedOneRetries(j, outcome) ==
    /\ j \in 1..Len(jobs)
    /\ resp' = NoResp
    /\ Injected(outcome # "ok") /\ runs[j].pc = "fallback"
    /\ runs[j].i < Len(JobChunks(j))
    /\ IF outcome = "ok"
       THEN /\ runs' = [runs EXCEPT
                    ![j].embeddings = @ \o <<Vec(JobChunks(j)[runs[j].i + 1])>>,
                    ![j].i = runs[j].i + 1,
                    ![j].pc = IF runs[j].i + 1 < Len(JobChunks(j))
                              THEN "fallback" ELSE "persist"]
            /\ jobs' = [jobs EXCEPT
                    ![j].progress = 50 + ((runs[j].i * 30) \div Len(JobChunks(j)))]
       ELSE /\ runs' = [runs EXCEPT ![j].embeddings = @ \o <<NullVec>>]
            /\ UNCHANGED jobs
    /\ UNCHANGED <<now, pdf, objects, records, tmpFiles, points, reqs, issued>>

\* One iteration of embedChunksIndividually.  outcome "ok": embedQuery and
\* updateProgress succeed; "embedFail": embedQuery throws; "progressFail":
\* embedQuery succeeds and updateProgress throws, so the catch pushes null
\* after the vector.
EmbedOne(j, outcome) ==
    /\ j \in 1..Len(jobs)
    /\ resp' = NoResp
    /\ Injected(outcome # "ok") /\ runs[j].pc = "fallback"
    /\ runs[j].i < Len(JobChunks(j))
    /\ LET i == runs[j].i
           n == Len(JobChunks(j))
           emb == Vec(JobChunks(j)[i + 1])
           pushed == CASE outcome = "ok" -> <<emb>>
                       [] outcome = "embedFail" -> <<NullVec>>
                       [] outcome = "progressFail" -> <<emb, NullVec>>
       IN /\ runs' = [runs EXCEPT
                  ![j].embeddings = @ \o pushed,
                  ![j].i = i + 1,
                  ![j].pc = IF i + 1 < n THEN "fallback" ELSE "persist"]
          /\ jobs' = IF outcome = "ok"
                     THEN [jobs EXCEPT ![j].progress = FallbackProgress(i, n)]
                     ELSE jobs
    /\ UNCHANGED <<now, pdf, objects, records, tmpFiles, points, reqs, issued>>

\* "5. Store in Qdrant": updateProgress(80), build validPoints, upsert.
Persist(j, fault) ==
    /\ j \in 1..Len(jobs)
    /\ resp' = NoResp
    /\ Injected(fault) /\ runs[j].pc = "persist"
    /\ jobs' = [jobs EXCEPT ![j].progress = 80]
    /\ IF fault
       THEN /\ Throw(j, "Qdrant upsert failed")
            /\ UNCHANGED points
       ELSE /\ points' = points \cup ValidPoints(j, runs[j].embeddings)
            /\ runs' = [runs EXCEPT ![j].pc = "update",
                   ![j].nPoints = Cardinality(ValidPoints(j, runs[j].embeddings))]
    /\ UNCHANGED <<now, pdf, objects, records, tmpFiles, reqs, issued>>

\* "6. Update database metadata": updateStatus(fileHash, 'completed', n).
UpdateCompleted(j, fault) ==
    /\ j \in 1..Len(jobs)
    /\ resp' = NoResp
    /\ Injected(fault) /\ runs[j].pc = "update"
    /\ IF fault
       THEN /\ Throw(j, "Database update failed")
            /\ UNCHANGED records
       ELSE /\ records' = updateStatus(jobs[j].data.fileHash, "completed",
                                       CompletedCount(j), NULL)
            /\ runs' = [runs EXCEPT ![j].pc = "cleanup"]
    /\ UNCHANGED <<now, pdf, objects, jobs, tmpFiles, points, reqs, issued>>

\* A finalize step in which a failing deleteFile throws.
CleanupDeleteThrows(j, outcome) ==
    /\ j \in 1..Len(jobs)
    /\ resp' = NoResp
    /\ Injected(outcome # "ok") /\ runs[j].pc = "cleanup"
    /\ IF outcome \in {"progressFail", "deleteFail"}
       THEN /\ Throw(j, IF outcome = "deleteFail" THEN "Storage delete failed"
                        ELSE "Progress update failed")
            /\ UNCHANGED <<jobs, objects>>
       ELSE IF outcome = "progressFail100"
       THEN /\ Throw(j, "Progress update failed")
            /\ objects' = objects \ {jobs[j].data.objectKey}
            /\ jobs' = [jobs EXCEPT ![j].progress = 95]
       ELSE /\ objects' = objects \ {jobs[j].data.objectKey}
            /\ runs' = [runs EXCEPT ![j] = DoneRun]
            /\ jobs' = [jobs EXCEPT
                   ![j].state = "completed",
                   ![j].progress = 100,
                   ![j].returnvalue =
                       [status |-> "success",
                        totalChunks |-> Len(pdf[jobs[j].data.fileHash]),
                        processedChunks |-> runs[j].nPoints,
                        fileHash |-> jobs[j].data.fileHash]]
    /\ UNCHANGED <<now, pdf, records, tmpFiles, points, reqs, issued>>

\* "7. Delete from R2": updateProgress(95), deleteFile (which swallows its
\* own failure), updateProgress(100) and the return value.  outcome
\* "progressFail": updateProgress(95) throws; "progressFail100": the object
\* is deleted and updateProgress(100) throws.
Cleanup(j, outcome) ==
    /\ j \in 1..Len(jobs)
    /\ resp' = NoResp
    /\ Injected(outcome # "ok") /\ runs[j].pc = "cleanup"
    /\ IF outcome = "progressFail"
       THEN /\ Throw(j, "Progress update failed")
            /\ UNCHANGED <<jobs, objects>>
       ELSE IF outcome = "progressFail100"
       THEN /\ Throw(j, "Progress update failed")
            /\ objects' = objects \ {jobs[j].data.objectKey}
            /\ jobs' = [jobs EXCEPT ![j].progress = 95]
       ELSE /\ objects' = IF outcome = "deleteFail" THEN objects
                          ELSE objects \ {jobs[j].data.objectKey}
            /\ runs' = [runs EXCEPT ![j] = DoneRun]
            /\ jobs' = [jobs EXCEPT
                   ![j].state = "completed",
                   ![j].progress = 100,
                   ![j].returnvalue =
                       [status |-> "success",
                        totalChunks |-> Len(pdf[jobs[j].data.fileHash]),
                        processedChunks |-> runs[j].nPoints,
                        fileHash |-> jobs[j].data.fileHash]]
    /\ UNCHANGED <<now, pdf, records, tmpFiles, points, reqs, issued>>

\* A catch block without the temp file clean-up.
CatchKeepsTemp(j, fault) ==
    /\ j \in 1..Len(jobs)
    /\ resp' = NoResp
    /\ Injected(fault) /\ runs[j].pc = "catch"
    /\ tmpFiles' = tmpFiles
    /\ records' = IF fault THEN records
                  ELSE updateStatus(jobs[j].data.fileHash, "failed", 0,
                                    runs[j].error)
    /\ runs' = [runs EXCEPT ![j] = DoneRun]
    /\ jobs' = [jobs EXCEPT
           ![j].state = "failed",
           ![j].failedReason = IF fault THEN "Database update failed"
                               ELSE runs[j].error]
    /\ UNCHANGED <<now, pdf, objects, points, reqs, issued>>

\* A catch block that resets the job's progress.
CatchResetsProgress(j, fault) ==
    /\ j \in 1..Len(jobs)
    /\ resp' = NoResp
    /\ Injected(fault) /\ runs[j].pc = "catch"
    /\ tmpFiles' = IF runs[j].tempPath THEN tmpFiles \ {j} ELSE tmpFiles
    /\ records' = IF fault THEN records
                  ELSE updateStatus(jobs[j].data.fileHash, "failed", 0,
                                    runs[j].error)
    /\ runs' = [runs EXCEPT ![j] = DoneRun]
    /\ jobs' = [jobs EXCEPT
           ![j].state = "failed",
           ![j].progress = 0,
           ![j].failedReason = IF fault THEN "Database update failed"
                               ELSE runs[j].error]
    /\ UNCHANGED <<now, pdf, objects, points, reqs, issued>>

\* The catch block: temp file clean-up, updateStatus(fileHash, 'failed', 0,
\* message), rethrow; the queue then marks the job failed.  With fault the
\* update itself throws and that error is the one the queue records.
Catch(j, fault) ==
    /\ j \in 1..Len(jobs)
    /\ resp' = NoResp
    /\ Injected(fault) /\ runs[j].pc = "catch"
    /\ tmpFiles' = IF runs[j].tempPath THEN tmpFiles \ {j} ELSE tmpFiles
    /\ records' = IF fault THEN records
                  ELSE updateStatus(jobs[j].data.fileHash, "failed", 0,
                                    runs[j].error)
    /\ runs' = [runs EXCEPT ![j] = DoneRun]
    /\ jobs' = [jobs EXCEPT
           ![j].state = "failed",
           ![j].failedReason = IF fault THEN "Database update failed"
                               ELSE runs[j].error]
    /\ UNCHANGED <<now, pdf, objects, points, reqs, issued>>

\* ------------------------------------------------------------ the system
Init ==
    /\ now = 0
    /\ pdf \in Libraries
    /\ objects = {}
    /\ records = <<>>
    /\ jobs = <<>>
    /\ runs = <<>>
    /\ tmpFiles = {}
    /\ points = {}
    /\ reqs = <<>>
    /\ resp = NoResp
    /\ issued = {}
    /\ faults = 0

Intake ==
    \/ \E f \in FileNames, h \in Hashes : getUploadUrl(f, h)
    \/ \E k \in Keys : ClientUpload(k)
    \/ \E k \in issued, f \in FileNames, u \in Users :
           triggerProcessing(k, f, KeyHash(k), u)
    \/ \E r \in 1..MaxReqs : triggerEnqueue(r)
    \/ \E r \in 1..MaxReqs : triggerSave(r)
    \/ \E j \in 1..(Len(jobs) + 1) : retryJob(j)
    \/ \E r \in 1..MaxReqs : retrySave(r)

Worker ==
    \/ \E j \in 1..MaxJobs : Start(j)
    \/ \E j \in 1..MaxJobs, fault \in BOOLEAN : Download(j, fault)
    \/ \E j \in 1..MaxJobs, fault \in BOOLEAN : Load(j, fault)
    \/ \E j \in 1..MaxJobs, fault \in BOOLEAN : EmbedBatch(j, fault)
    \/ \E j \in 1..MaxJobs, o \in {"ok", "embedFail", "progressFail"} :
           EmbedOne(j, o)
    \/ \E j \in 1..MaxJobs, fault \in BOOLEAN : Persist(j, fault)
    \/ \E j \in 1..MaxJobs, fault \in BOOLEAN : UpdateCompleted(j, fault)
    \/ \E j \in 1..MaxJobs,
          o \in {"ok", "deleteFail", "progressFail", "progressFail100"} :
           Cleanup(j, o)
    \/ \E j \in 1..MaxJobs, fault \in BOOLEAN : Catch(j, fault)

Next == Intake \/ Worker

Spec == Init /\ [][Next]_vars

\* ------------------------------------------- the system without faults
\* Every collaborator call succeeds and the client triggers processing only
\* for an object it has uploaded.  A suspended handler and a job in the
\* queue are eventually resumed (event loop, BullMQ worker); requests arrive
\* whenever the client sends them.
IntakeAvail ==
    \/ \E f \in FileNames, h \in Hashes : getUploadUrl(f, h)
    \/ \E k \in Keys : ClientUpload(k)
    \/ \E k \in issued \cap objects, f \in FileNames, u \in Users :
           triggerProcessing(k, f, KeyHash(k), u)
    \/ \E j \in 1..(Len(jobs) + 1) : retryJob(j)

Resume ==
    \/ \E r \in 1..MaxReqs : triggerEnqueue(r)
    \/ \E r \in 1..MaxReqs : triggerSave(r)
    \/ \E r \in 1..MaxReqs : retrySave(r)

WorkerAvail ==
    \/ \E j \in 1..MaxJobs : Start(j)
    \/ \E j \in 1..MaxJobs : Download(j, FALSE)
    \/ \E j \in 1..MaxJobs : Load(j, FALSE)
    \/ \E j \in 1..MaxJobs : EmbedBatch(j, FALSE)
    \/ \E j \in 1..MaxJobs : Persist(j, FALSE)
    \/ \E j \in 1..MaxJobs : UpdateCompleted(j, FALSE)
    \/ \E j \in 1..MaxJobs : Cleanup(j, "ok")
    \/ \E j \in 1..MaxJobs : Catch(j, FALSE)

NextAvail == IntakeAvail \/ Resume \/ WorkerAvail

SpecAvail ==
    Init /\ [][NextAvail]_vars /\ WF_vars(Resume) /\ WF_vars(WorkerAvail)

\* ------------------------------------------------------------- properties
JobsOf(h) == {j \in 1..Len(jobs) : jobs[j].data.fileHash = h}

Live(j) == jobs[j].state \in {"waiting", "active"}

\* C1: the registry never holds two UploadRecords with the same content
\* hash, however many uploads of the same bytes are made.
C1_OneRecordPerHash ==
    \A i, k \in 1..Len(records) :
        records[i].content_hash = records[k].content_hash => i = k

\* A second insert for a hash was attempted and rejected.
C1_Witness ==
    /\ resp.status = "exception"
    /\ Cardinality(RowsByHash(records, resp.fileHash)) = 1

\* C2: for every content hash at most one job carrying it is waiting or
\* active at any time.
C2_OneLiveJobPerHash ==
    \A h \in Hashes : Cardinality({j \in JobsOf(h) : Live(j)}) <= 1

\* C3: once triggerProcessing has answered queued(J1) for a hash that had
\* no record and no other job, and whose uploaded document has a valid
\* chunk, J1 eventually is completed with the record completed and a
\* positive chunk count -- if no collaborator fails.
C3_Queued(j) ==
    /\ resp.op = "trigger" /\ resp.status = "queued" /\ resp.jobId = j
    /\ JobsOf(resp.fileHash) = {j}
    /\ JobChunks(j) # <<>>

C3_Done(j) ==
    /\ j \in 1..Len(jobs)
    /\ jobs[j].state = "completed"
    /\ findByHash(jobs[j].data.fileHash).status = "completed"
    /\ findByHash(jobs[j].data.fileHash).chunk_count > 0

C3_EventuallyCompleted ==
    \A j \in 1..MaxJobs : C3_Queued(j) ~> C3_Done(j)

\* C4, as stated: from the response queued(J1) until J1 is finished, every
\* upload-url request for the hash answers processing(J1), every process
\* request for it answers already_processing(J1), and no job for the hash
\* is added.
C4_Interval(j) == findByJobId(j).status # "none" /\ Live(j)

C4_UntilJobFinishes ==
    [][\A j \in 1..Len(jobs) :
          C4_Interval(j) =>
            LET h == jobs[j].data.fileHash IN
            /\ Len(jobs') > Len(jobs) => jobs'[Len(jobs')].data.fileHash # h
            /\ (resp'.op = "upload" /\ resp'.fileHash = h) =>
                   (resp'.status = "processing" /\ resp'.jobId = j)
            /\ (resp'.op = "trigger" /\ resp'.fileHash = h) =>
                   (resp'.status = "already_processing" /\ resp'.jobId = j)]_vars

\* C4, amended: while the record of a hash is 'processing' with job J1,
\* every upload-url request for the hash answers processing(J1) with
\* skipUpload, and every process request for it that arrives answers
\* already_processing(J1) without adding a job or going on to add one.
C4_WhileRecordProcessing ==
    [][\A h \in Hashes :
          findByHash(h).status = "processing" =>
            /\ (resp'.op = "upload" /\ resp'.fileHash = h) =>
                   /\ resp'.status = "processing"
                   /\ resp'.jobId = findByHash(h).job_id
                   /\ resp'.skipUpload
            /\ (resp'.op = "trigger" /\ resp'.fileHash = h
                   /\ resp'.status = "already_processing") =>
                   /\ resp'.jobId = findByHash(h).job_id
                   /\ jobs' = jobs /\ reqs' = reqs
            /\ ~ /\ Len(reqs') > Len(reqs)
                 /\ reqs'[Len(reqs')].op = "trigger"
                 /\ reqs'[Len(reqs')].fileHash = h]_vars

\* A process request was short-circuited by a record in 'processing'.
C4_Witness ==
    /\ resp.op = "trigger" /\ resp.status = "already_processing"
    /\ findByHash(resp.fileHash).job_id = resp.jobId

\* C5: the response of an upload-url request is determined by the record
\* of the hash: completed -> duplicate with skipUpload, processing ->
\* processing with the record's job id and skipUpload, failed or absent ->
\* an upload URL for a fresh key that expires after 3600 seconds.
C5_ResponseByRegistry ==
    resp.op = "upload" =>
        LET e == findByHash(resp.fileHash) IN
        /\ e.status = "completed" =>
               /\ resp.status = "duplicate" /\ resp.skipUpload
               /\ resp.metadata = e.id
        /\ e.status = "processing" =>
               /\ resp.status = "processing" /\ resp.skipUpload
               /\ resp.jobId = e.job_id
        /\ e.status \in {"failed", "none"} =>
               /\ resp.status = "uploadUrl" /\ ~resp.skipUpload
               /\ resp.expiresIn = 3600
               /\ \E f \in FileNames :
                      resp.objectKey = ObjectKey(resp.fileHash, now, f)

\* An upload-url request for a hash whose record is 'failed' got a URL.
C5_Witness ==
    /\ resp.op = "upload" /\ resp.status = "uploadUrl"
    /\ findByHash(resp.fileHash).status = "failed"

\* C6: a process request ends in one of two ways: already_processing, or
\* queued with the record of the hash in 'processing' and referring to the
\* new job.
C6_TwoOutcomes ==
    resp.op = "trigger" =>
        \/ resp.status = "already_processing"
        \/ /\ resp.status = "queued"
           /\ findByHash(resp.fileHash).status = "processing"
           /\ findByHash(resp.fileHash).job_id = resp.jobId

\* C7, as stated: a record is created 'processing' and, once its status
\* has left 'processing', the status never changes again (it is written
\* once); records are never removed.
C7_StatusWrittenOnce ==
    [][/\ Len(records') >= Len(records)
       /\ \A i \in (Len(records) + 1)..Len(records') :
              records'[i].status = "processing"
       /\ \A i \in 1..Len(records) :
              records[i].status # "processing" =>
                  records'[i].status = records[i].status]_vars

\* C7, amended: a record is created 'processing' with no chunk count and no
\* error; it is never removed and its id, hash, job id and object key never
\* change; its status is changed only by the worker's updateStatus in a run
\* for the record's hash, only to 'completed' or 'failed' and never back to
\* 'processing' -- possibly more than once.
C7_RecordLifecycle ==
    [][/\ Len(records') >= Len(records)
       /\ \A i \in (Len(records) + 1)..Len(records') :
              /\ records'[i].status = "processing"
              /\ records'[i].chunk_count = NullCount
              /\ records'[i].error_message = NULL
       /\ \A i \in 1..Len(records) :
              /\ records'[i].id = records[i].id
              /\ records'[i].content_hash = records[i].content_hash
              /\ records'[i].job_id = records[i].job_id
              /\ records'[i].r2_object_key = records[i].r2_object_key
              /\ records'[i] # records[i] =>
                     /\ records'[i].status \in {"completed", "failed"}
                     /\ \E j \in JobsOf(records[i].content_hash) :
                            /\ runs[j].pc \in {"update", "catch"}
                            /\ runs'[j].pc # runs[j].pc]_vars

\* A record that was set to 'completed' and then to 'failed' by one run.
C7_Witness ==
    \E i \in 1..Len(records) :
        /\ records[i].status = "failed"
        /\ records[i].error_message = "Progress update failed"

\* The number of chunks for which an embedding call returned a vector.
Embedded(embeddings) ==
    Cardinality({k \in 1..Len(embeddings) : embeddings[k] # NullVec})

\* C8: the chunk count that a run writes to the record equals the number of
\* valid chunks that were embedded, which equals the number of points the
\* run upserted.
C8_ChunkCountIsEmbedded ==
    [][\A j \in 1..Len(jobs) :
          (runs[j].pc = "update" /\ runs'[j].pc = "cleanup") =>
              \A i \in RowsByHash(records', jobs[j].data.fileHash) :
                  /\ records'[i].chunk_count = Embedded(runs[j].embeddings)
                  /\ records'[i].chunk_count =
                         Cardinality({p \in points : p.id[1] = j})]_vars

\* C9: a failing batch embedding hands over to the per-chunk loop, which
\* starts at the first chunk; each iteration handles the next chunk, keeps
\* what was recorded and records at least one entry; the loop ends after
\* the last chunk and goes on to the upsert; neither ends the run.  If a
\* chunk was embedded the run has a point to upsert, and no job fails with
\* an embedding error.
C9_FallbackAbsorbsFailures ==
    [][\A j \in 1..Len(jobs) :
          /\ runs[j].pc = "embed" /\ runs'[j].pc # "embed" =>
                 \/ runs'[j].pc = "persist"
                 \/ /\ runs'[j].pc = "fallback"
                    /\ runs'[j].i = 0 /\ runs'[j].embeddings = <<>>
          /\ runs[j].pc = "fallback" /\ runs'[j] # runs[j] =>
                 /\ runs'[j].i = runs[j].i + 1
                 /\ Len(runs'[j].embeddings) > Len(runs[j].embeddings)
                 /\ SubSeq(runs'[j].embeddings, 1, Len(runs[j].embeddings))
                        = runs[j].embeddings
                 /\ runs'[j].pc = IF runs'[j].i < Len(JobChunks(j))
                                  THEN "fallback" ELSE "persist"
                 /\ Embedded(runs'[j].embeddings) > 0 =>
                        ValidPoints(j, runs'[j].embeddings) # {}
          /\ jobs'[j].failedReason # "Embedding failed"]_vars

\* The per-chunk loop has ended with a failed chunk and an embedded one.
C9_Witness ==
    \E j \in 1..Len(jobs) :
        /\ runs[j].pc = "persist"
        /\ runs[j].i = Len(JobChunks(j))
        /\ \E k \in 1..Len(runs[j].embeddings) : runs[j].embeddings[k] = NullVec
        /\ ValidPoints(j, runs[j].embeddings) # {}

\* C10: when a run is left with no valid chunk the job fails with the
\* empty-document reason and, once the request that added the job has been
\* answered, the record of the hash is 'failed'; the run has embedded
\* nothing and upserted nothing.
C10_EmptyDocumentFails ==
    \A j \in 1..Len(jobs) :
        (/\ jobs[j].state = "failed"
         /\ jobs[j].failedReason = "No valid chunks found in PDF"
         /\ \A r \in 1..Len(reqs) : reqs[r].newJob # j) =>
            /\ findByHash(jobs[j].data.fileHash).status = "failed"
            /\ {p \in points : p.id[1] = j} = {}
            /\ JobChunks(j) = <<>>

\* C11: when a run ends in the catch block, every record of the job's hash
\* is set to 'failed' with the message of the exception that was caught,
\* and the job fails with that same exception.
C11_FailureRecorded ==
    [][\A j \in 1..Len(jobs) :
          (runs[j].pc = "catch" /\ runs'[j].pc = "done") =>
              /\ \A i \in RowsByHash(records', jobs[j].data.fileHash) :
                     /\ records'[i].status = "failed"
                     /\ records'[i].error_message = runs[j].error
              /\ jobs'[j].state = "failed"
              /\ jobs'[j].failedReason = runs[j].error]_vars

\* C12: a retry of an id that no job has is answered not_found, a retry of
\* a waiting or active job is answered with the cannot-retry error, and
\* neither adds a job, touches a record or leaves a handler behind; a retry
\* goes on to add a job only for a failed or completed job.
C12_RetryRejections ==
    [][/\ (resp'.op = "retry" /\ resp'.status \in {"not_found", "error"}) =>
              /\ jobs' = jobs /\ runs' = runs
              /\ records' = records /\ reqs' = reqs
       /\ (resp'.op = "retry" /\ resp'.status = "not_found") =>
              ~JobExists(resp'.forJob)
       /\ (resp'.op = "retry" /\ resp'.status = "error") =>
              JobExists(resp'.forJob) /\ Live(resp'.forJob)
       /\ (Len(reqs') > Len(reqs) /\ reqs'[Len(reqs')].op = "retry") =>
              /\ JobExists(reqs'[Len(reqs')].jobId)
              /\ jobs[reqs'[Len(reqs')].jobId].state \in {"failed", "completed"}]_vars

\* A retry of an active job was refused.
C12_Witness ==
    /\ resp.op = "retry" /\ resp.status = "error"
    /\ jobs[resp.forJob].state = "active"

\* C13: a retry that passes its checks adds exactly one job, waiting, with
\* the payload of the job it retries and a new id, and changes no job that
\* exists; its last step adds none; when it answers queued the new id it
\* returns differs from the retried id and names a job with the same
\* payload.
C13_RetryAddsIndependentJob ==
    [][/\ (Len(reqs') > Len(reqs) /\ reqs'[Len(reqs')].op = "retry") =>
              LET q == reqs'[Len(reqs')] IN
              /\ Len(jobs') = Len(jobs) + 1
              /\ q.newJob = Len(jobs') /\ q.newJob # q.jobId
              /\ jobs'[q.newJob].data = jobs[q.jobId].data
              /\ jobs'[q.newJob].state = "waiting"
              /\ \A k \in 1..Len(jobs) : jobs'[k] = jobs[k]
       /\ (resp'.op = "retry" /\ resp'.status \in {"queued", "exception"}) =>
              jobs' = jobs
       /\ (resp'.op = "retry" /\ resp'.status = "queued") =>
              /\ resp'.jobId # resp'.forJob
              /\ JobExists(resp'.jobId)
              /\ jobs[resp'.jobId].data = jobs[resp'.forJob].data]_vars

\* A retry has answered queued with the id of the job it added.
C13_Witness ==
    /\ resp.op = "retry" /\ resp.status = "queued"
    /\ JobExists(resp.jobId) /\ resp.jobId # resp.forJob

\* C14: when a retry that added job N returns, it answers queued(N), the
\* record of the hash is 'processing' with job id N, and the status of N
\* shows that record as its metadata.
C14_RetryReplacesJobId ==
    [][\A r \in 1..Len(reqs), n \in 1..Len(jobs) :
          (reqs[r].op = "retry" /\ reqs[r].newJob = n /\ reqs' = Returned(r)
              /\ resp'.op = "retry" /\ resp'.forJob = reqs[r].jobId) =>
              /\ resp'.status = "queued" /\ resp'.jobId = n
              /\ RowsByHash(records', reqs[r].fileHash) # {}
              /\ \A i \in RowsByHash(records', reqs[r].fileHash) :
                     /\ records'[i].status = "processing"
                     /\ records'[i].job_id = n
              /\ getStatus(n)'.metadata.job_id = n]_vars

\* C15: when a job that completed has been processed a second time (a
\* second job with the same payload has ended) and no collaborator call
\* has failed, the vector store holds for the content exactly the points of
\* the first run and the record is 'completed' with the first run's count.
C15_ReplaySafe ==
    \A h \in Hashes : \A j1, j2 \in JobsOf(h) :
        (/\ j1 < j2 /\ jobs[j1].data = jobs[j2].data
         /\ jobs[j1].state = "completed"
         /\ jobs[j2].state \in {"completed", "failed"}
         /\ faults = 0 /\ reqs = <<>>) =>
            /\ {p \in points : p.content_hash = h} = {p \in points : p.id[1] = j1}
            /\ findByHash(h).status = "completed"
            /\ findByHash(h).chunk_count = jobs[j1].returnvalue.processedChunks

\* ------------------------------------- two uploads of the same content
\* The same content (h1) has been uploaded MaxClock + 1 times, each upload
\* under the key of its own upload URL; from here process requests for
\* these keys arrive and run against the worker, and no collaborator fails.
UploadedTwice == {ObjectKey("h1", t, f) : t \in 0..MaxClock, f \in FileNames}

InitRace ==
    /\ now = MaxClock
    /\ pdf \in Libraries
    /\ objects = UploadedTwice
    /\ issued = UploadedTwice
    /\ records = <<>>
    /\ jobs = <<>>
    /\ runs = <<>>
    /\ tmpFiles = {}
    /\ points = {}
    /\ reqs = <<>>
    /\ resp = NoResp
    /\ faults = 0

NextRace ==
    \/ \E k \in issued, f \in FileNames, u \in Users :
           triggerProcessing(k, f, KeyHash(k), u)
    \/ \E r \in 1..MaxReqs : triggerEnqueue(r)
    \/ \E r \in 1..MaxReqs : triggerSave(r)
    \/ WorkerAvail

SpecRace == InitRace /\ [][NextRace]_vars

\* C16: when two jobs have processed the same content and both have ended
\* and both requests have been answered, the record of the hash is in one
\* and the same state whatever the order was: 'completed' with the number
\* of valid chunks of the content.
C16_SameFinalRecord ==
    (/\ Len(jobs) = 2 /\ reqs = <<>>
     /\ \A j \in 1..2 : /\ jobs[j].data.fileHash = "h1"
                        /\ jobs[j].state \in {"completed", "failed"}) =>
        /\ findByHash("h1").status = "completed"
        /\ findByHash("h1").chunk_count = Len(ValidChunks(pdf["h1"]))

\* ------------------------------------------------ chunking of documents
\* The initial chunks a document may consist of: noise, the two sides of
\* each length limit, an oversized chunk that the re-splitter cuts at a
\* paragraph break shortly before its end ("<1496 chars>\n\nabc"), one it
\* cuts into 1500 + 550, and one on which the re-splitter throws.
Shapes ==
    {Chunk(0, 5, 6, <<>>, FALSE), Chunk(0, 9, 0, <<>>, FALSE),
     Chunk(0, 10, 0, <<>>, FALSE), Chunk(0, 600, 2, <<>>, FALSE),
     Chunk(0, 1500, 0, <<>>, FALSE), Chunk(0, 1501, 0, <<1496, 3>>, FALSE),
     Chunk(0, 2000, 0, <<1500, 550>>, FALSE), Chunk(0, 2000, 0, <<>>, TRUE)}

Docs ==
    UNION {{[k \in 1..n |-> [d[k] EXCEPT !.src = k]] : d \in [1..n -> Shapes]} :
               n \in 0..MaxDocLen}

\* A process request for an uploaded document of h1 has just been answered
\* queued(1); the worker then runs the job, no collaborator failing.
InitChunks ==
    /\ now = 0
    /\ pdf \in {[h \in Hashes |-> IF h = "h1" THEN d ELSE NoisePdf] : d \in Docs}
    /\ objects = {ObjectKey("h1", 0, "doc.pdf")}
    /\ issued = {ObjectKey("h1", 0, "doc.pdf")}
    /\ jobs = <<[data |-> PdfJobData(ObjectKey("h1", 0, "doc.pdf"), "doc.pdf", "h1", "u1"),
                 state |-> "waiting", progress |-> 0,
                 returnvalue |-> NoReturn, failedReason |-> NULL]>>
    /\ runs = <<IdleRun>>
    /\ records = <<[id |-> 1, content_hash |-> "h1",
                    original_filename |-> "doc.pdf", uploaded_by |-> "u1",
                    job_id |-> 1, r2_object_key |-> ObjectKey("h1", 0, "doc.pdf"),
                    status |-> "processing", chunk_count |-> NullCount,
                    error_message |-> NULL]>>
    /\ tmpFiles = {}
    /\ points = {}
    /\ reqs = <<>>
    /\ resp = Resp("trigger", "h1", NoJob, "queued", 1, NoKey, FALSE, 0, 0)
    /\ faults = 0

SpecChunks == InitChunks /\ [][WorkerAvail]_vars

C19_DeleteFailureSwallowed ==
    [][\A j \in 1..Len(jobs) :
          (runs[j].pc = "cleanup" /\ runs'[j] # runs[j]) =>
              \/ /\ runs'[j].pc = "catch"
                 /\ runs'[j].error = "Progress update failed"
                 /\ objects' \in {objects, objects \ {jobs[j].data.objectKey}}
              \/ /\ runs'[j].pc = "done"
                 /\ jobs'[j].state = "completed"
                 /\ jobs'[j].progress = 100
                 /\ jobs'[j].returnvalue.processedChunks = runs[j].nPoints
                 /\ records' = records
                 /\ objects' \in {objects, objects \ {jobs[j].data.objectKey}}]_vars

\* The only job has completed, its record is 'completed' with the run's
\* count, and its object is still in the store after a failed call.
C19_Witness ==
    /\ Len(jobs) = 1 /\ faults = 1
    /\ jobs[1].state = "completed" /\ jobs[1].progress = 100
    /\ jobs[1].data.objectKey \in objects
    /\ findByHash(jobs[1].data.fileHash).status = "completed"
    /\ findByHash(jobs[1].data.fileHash).chunk_count
           = jobs[1].returnvalue.processedChunks

NextKeys ==
    \/ \E f \in FileNames, h \in Hashes : getUploadUrl(f, h)
    \/ \E k \in Keys : ClientUpload(k)
    \/ Tick

SpecKeys == Init /\ [][NextKeys]_vars

\* C21: an upload-url request that issues an upload target issues it for
\* an object key that no earlier upload target carries.
C21_UniqueObjectKeys ==
    [][(resp'.op = "upload" /\ resp'.status = "uploadUrl") =>
           resp'.objectKey \notin issued]_vars

\* A job that no record refers to and whose handler has returned: its
\* insert was rejected.
Orphaned(j) ==
    /\ findByJobId(j).status = "none"
    /\ \A r \in 1..Len(reqs) : reqs[r].newJob # j

\* C22: the run of a job whose record could not be created by the process
\* request that added it changes no record, at any of its steps.
C22_OrphanedJobHarmless ==
    [][\A j \in 1..Len(jobs) :
          (Orphaned(j) /\ runs'[j] # runs[j]) => records' = records]_vars

\* C23: every record refers to a job that is in the queue, and that job was
\* in the queue before the record was inserted: the step that inserts a
\* record adds no job and the record carries the id of a job of the same
\* hash that existed before the step.
C23_RecordJobExists ==
    [][/\ \A i \in 1..Len(records') :
              /\ records'[i].job_id \in 1..Len(jobs')
              /\ jobs'[records'[i].job_id].data.fileHash = records'[i].content_hash
       /\ \A i \in (Len(records) + 1)..Len(records') :
              /\ records'[i].job_id \in 1..Len(jobs)
              /\ jobs' = jobs]_vars

\* A process request has answered queued and the record of the hash names
\* the job it added, which is in the queue.
C23_Witness ==
    /\ resp.op = "trigger" /\ resp.status = "queued"
    /\ findByHash(resp.fileHash).job_id = resp.jobId
    /\ JobExists(resp.jobId)
    /\ jobs[resp.jobId].data.fileHash = resp.fileHash

\* C24: the persist step leaves the records alone and either throws,
\* storing nothing, or stores in one step exactly one point per valid chunk
\* for which an embedding call returned a vector, each with a non-null
\* vector; a record is set to 'completed' only by a run whose upsert has
\* succeeded, and a run in its catch block sets no record to 'completed'.
C24_PointsThenCompleted ==
    [][\A j \in 1..Len(jobs) :
          /\ (runs[j].pc = "persist" /\ runs'[j] # runs[j]) =>
                 /\ records' = records
                 /\ \/ /\ runs'[j].pc = "catch"
                       /\ points' = points
                    \/ /\ runs'[j].pc = "update"
                       /\ Cardinality(points' \ points)
                              = Embedded(runs[j].embeddings)
                       /\ \A p \in points' \ points :
                              p.vector # NullVec /\ p.id[1] = j
          /\ (runs[j].pc # "update" /\ runs'[j] # runs[j]) =>
                 \A i \in 1..Len(records) :
                     records'[i].status = "completed" =>
                         records[i].status = "completed"]_vars

\* The order of the stages of process(): from each position of a run the
\* positions its next step may lead to; "catch" is the failed state.
StageOrder ==
    {<<"idle", "download">>, <<"download", "load">>, <<"load", "embed">>,
     <<"embed", "persist">>, <<"embed", "fallback">>,
     <<"fallback", "fallback">>, <<"fallback", "persist">>,
     <<"persist", "update">>, <<"update", "cleanup">>, <<"cleanup", "done">>,
     <<"download", "catch">>, <<"load", "catch">>, <<"persist", "catch">>,
     <<"update", "catch">>, <<"cleanup", "catch">>, <<"catch", "done">>}

\* The part of C25 about one step of the run of job j: the stages follow
\* the order, each stage is entered with its progress value, progress never
\* decreases, and from the failed state the run only ends -- no progress
\* update, no vector write, no object deletion -- after which the job is
\* failed and never moves again.
C25_Step(j) ==
    /\ runs'[j] # runs[j] =>
           /\ <<runs[j].pc, runs'[j].pc>> \in StageOrder
           /\ jobs'[j].progress >= jobs[j].progress
           /\ runs'[j].pc = "download" => jobs'[j].progress = 10
           /\ runs'[j].pc = "load" => jobs'[j].progress = 30
           /\ runs'[j].pc = "embed" => jobs'[j].progress = 50
           /\ runs'[j].pc \in {"fallback", "persist"} =>
                  jobs'[j].progress \in 50..80
           /\ runs'[j].pc \in {"update", "cleanup"} => jobs'[j].progress = 80
           /\ (runs[j].pc = "cleanup" /\ runs'[j].pc = "done") =>
                  jobs'[j].progress = 100 /\ jobs'[j].state = "completed"
           /\ runs[j].pc = "catch" =>
                  /\ jobs'[j].state = "failed"
                  /\ jobs'[j].progress = jobs[j].progress
                  /\ points' = points /\ objects' = objects
    /\ jobs[j].state = "failed" => (jobs'[j] = jobs[j] /\ runs'[j] = runs[j])

\* The progress of the job whose run sets record i to 'completed' in this
\* step is p before and after the step.
C25_CompletedAt(i, p) ==
    (records'[i].status = "completed" /\ records[i].status # "completed") =>
        \E j \in JobsOf(records[i].content_hash) :
            /\ runs[j].pc = "update" /\ runs'[j].pc = "cleanup"
            /\ jobs[j].progress = p /\ jobs'[j].progress = p

\* C25, as stated: the stages of a job run in order with progress 10, 30,
\* 50-80, 80, 95, 100 never decreasing, failed is absorbing, and the record
\* is set to 'completed' in the finalizing stage, at progress 95.
C25_CompletedAtFinalizing ==
    [][/\ \A j \in 1..Len(jobs) : C25_Step(j)
       /\ \A i \in 1..Len(records) : C25_CompletedAt(i, 95)]_vars

\* C25, amended: the same, but the record is set to 'completed' between
\* the upsert and the progress report of 95, while the job's progress still
\* reads 80.
C25_StagesInOrder ==
    [][/\ \A j \in 1..Len(jobs) : C25_Step(j)
       /\ \A i \in 1..Len(records) : C25_CompletedAt(i, 80)]_vars

\* A run has set the record to 'completed' and has not yet reported 95.
C25_Witness ==
    \E j \in 1..Len(jobs) :
        /\ runs[j].pc = "cleanup" /\ jobs[j].progress = 80
        /\ findByHash(jobs[j].data.fileHash).status = "completed"

\* ------------------------------------------- the per-chunk fallback path
\* The run of one queued job over the documents of Docs in which the
\* embedding service may fail: the batch call and, within the budget, the
\* calls and progress reports of the per-chunk loop.
NextFallback ==
    \/ \E j \in 1..MaxJobs : Start(j)
    \/ \E j \in 1..MaxJobs : Download(j, FALSE)
    \/ \E j \in 1..MaxJobs : Load(j, FALSE)
    \/ \E j \in 1..MaxJobs, fault \in BOOLEAN : EmbedBatch(j, fault)
    \/ \E j \in 1..MaxJobs, o \in {"ok", "embedFail", "progressFail"} :
           EmbedOne(j, o)
    \/ \E j \in 1..MaxJobs : Persist(j, FALSE)
    \/ \E j \in 1..MaxJobs : UpdateCompleted(j, FALSE)
    \/ \E j \in 1..MaxJobs : Cleanup(j, "ok")
    \/ \E j \in 1..MaxJobs : Catch(j, FALSE)

SpecFallback == InitChunks /\ [][NextFallback]_vars

\* C26: a progress value p reported by the per-chunk loop for chunk i of n
\* is 50 + floor(30 * i / n) -- the p with (p - 50) * n <= 30 * i <
\* (p - 49) * n --, lies in 50..80 and is not below the progress reported
\* before; the persist stage then reports 80, which is not below it
\* either.  For every n up to MaxChunkCount the formula stays in 50..80 and
\* does not decrease with i.
C26_FallbackProgressBounds ==
    [][/\ \A j \in 1..Len(jobs) :
              /\ (/\ runs[j].pc = "fallback"
                  /\ Len(runs'[j].embeddings) = Len(runs[j].embeddings) + 1
                  /\ runs'[j].embeddings[Len(runs'[j].embeddings)] # NullVec) =>
                     LET i == runs[j].i
                         n == Len(JobChunks(j))
                         p == jobs'[j].progress
                     IN /\ n >= 1 /\ i \in 0..(n - 1)
                        /\ (p - 50) * n <= 30 * i
                        /\ 30 * i < (p - 49) * n
                        /\ p \in 50..80
                        /\ p >= jobs[j].progress
              /\ (runs[j].pc = "persist" /\ runs'[j] # runs[j]) =>
                     /\ jobs'[j].progress = 80
                     /\ jobs'[j].progress >= jobs[j].progress
       /\ \A n \in 1..MaxChunkCount : \A i \in 0..(n - 1) :
              /\ FallbackProgress(i, n) \in 50..80
              /\ (FallbackProgress(i, n) - 50) * n <= 30 * i
              /\ 30 * i < (FallbackProgress(i, n) - 49) * n
              /\ i > 0 => FallbackProgress(i, n) >= FallbackProgress(i - 1, n)]_vars

\* The per-chunk loop over four chunks has reported 57 for chunk 1
\* (30 * 1 / 4 = 7.5, rounded down).
C26_Witness ==
    \E j \in 1..Len(jobs) :
        /\ runs[j].pc = "fallback" /\ runs[j].i = 2
        /\ Len(JobChunks(j)) = 4
        /\ jobs[j].progress = 57

\* C27: every iteration of the per-chunk loop in which the progress report
\* itself does not fail -- the chunk was embedded or its embedding call
\* threw -- leaves the job with the progress value of that chunk, so that a
\* progress update follows every embedding call.
C27_ProgressEveryChunk ==
    [][\A j \in 1..Len(jobs) :
          (/\ runs[j].pc = "fallback"
           /\ Len(runs'[j].embeddings) = Len(runs[j].embeddings) + 1) =>
              jobs'[j].progress
                  = FallbackProgress(runs[j].i, Len(JobChunks(j)))]_vars

\* The valid chunks that stem from initial chunk k, in output order.
FromChunk(out, k) == SelectSeq(out, LAMBDA c : c.src = k)

\* C28: once the validation loop has run, its output lists the initial
\* chunks' contributions in input order, and the contribution of initial
\* chunk k is: nothing if its trimmed text has fewer than 10 characters;
\* the trimmed chunk alone, not re-split, if it has at most 1500; the
\* sub-chunks the re-splitter returns for the trimmed text, in their order
\* and none longer than 1500, if it has more; the trimmed chunk itself,
\* whole, if the re-splitter throws.
C28_ValidatorOutput ==
    \A j \in 1..Len(jobs) :
        runs[j].pc \notin {"idle", "download", "load"} =>
            LET doc == pdf[jobs[j].data.fileHash]
                out == JobChunks(j)
            IN /\ \A a, b \in 1..Len(out) :
                      a < b => \/ out[a].src < out[b].src
                               \/ /\ out[a].src = out[b].src
                                  /\ out[a].part < out[b].part
               /\ \A a \in 1..Len(out) : out[a].src \in 1..Len(doc)
               /\ \A k \in 1..Len(doc) :
                      LET t == doc[k].len
                          seg == FromChunk(out, k)
                      IN /\ t < 10 => seg = <<>>
                         /\ (10 <= t /\ t <= 1500) =>
                                seg = <<[doc[k] EXCEPT !.pad = 0]>>
                         /\ (t > 1500 /\ doc[k].splitThrows) =>
                                seg = <<[doc[k] EXCEPT !.pad = 0]>>
                         /\ (t > 1500 /\ ~doc[k].splitThrows) =>
                                /\ Len(seg) = Len(doc[k].pieces)
                                /\ \A p \in 1..Len(seg) :
                                       /\ seg[p].part = p
                                       /\ seg[p].len = doc[k].pieces[p]
                                       /\ seg[p].len <= 1500
                                       /\ seg[p].pad = 0

\* The validation loop has run over a document with one oversized chunk
\* that was re-split and one on which the re-splitter threw.
C28_Witness ==
    \E j \in 1..Len(jobs) :
        /\ runs[j].pc = "embed"
        /\ \E k \in 1..Len(pdf[jobs[j].data.fileHash]) :
               pdf[jobs[j].data.fileHash][k].splitThrows
        /\ \E a \in 1..Len(JobChunks(j)) : JobChunks(j)[a].part = 2

\* ---------------------------------------------- one run, calls may fail
\* The run of one queued job over the documents of Docs with every
\* collaborator call free to fail (within the budget).  Each call returns
\* or throws, so a run that can take a step eventually takes one.
SpecWorker == InitChunks /\ [][Worker]_vars /\ WF_vars(Worker)

\* The position of a stage in process().
StageRank(pc) ==
    CASE pc = "idle" -> 0 [] pc = "download" -> 1 [] pc = "load" -> 2
      [] pc = "embed" -> 3 [] pc = "fallback" -> 4 [] pc = "persist" -> 5
      [] pc = "update" -> 6 [] pc = "cleanup" -> 7 [] pc = "catch" -> 8
      [] pc = "done" -> 9

\* C29: a job that a worker has taken eventually is completed or failed;
\* no step of a run returns to a stage it has left or repeats one, except
\* the per-chunk loop, whose iterations handle chunk 0, 1, ... in turn and
\* which is left exactly after the last chunk.
C29_RunTerminates ==
    /\ \A j \in 1..MaxJobs :
           (j <= Len(jobs) /\ jobs[j].state = "active")
               ~> (j <= Len(jobs) /\ jobs[j].state \in {"completed", "failed"})
    /\ [][\A j \in 1..Len(jobs) :
             runs'[j] # runs[j] =>
                 /\ StageRank(runs'[j].pc) >= StageRank(runs[j].pc)
                 /\ StageRank(runs'[j].pc) = StageRank(runs[j].pc) =>
                        runs[j].pc = "fallback"
                 /\ runs[j].pc = "fallback" =>
                        /\ runs[j].i < Len(JobChunks(j))
                        /\ runs'[j].i = runs[j].i + 1
                        /\ (runs'[j].pc = "persist") =
                               (runs'[j].i = Len(JobChunks(j)))
                 /\ (runs[j].pc = "embed" /\ runs'[j].pc = "fallback") =>
                        runs'[j].i = 0]_vars

\* A run over four valid chunks has ended after the batch call and one
\* call of the per-chunk loop failed.
C29_Witness ==
    /\ Len(jobs) = 1 /\ jobs[1].state \in {"completed", "failed"}
    /\ Len(JobChunks(1)) = 4 /\ faults = 2
    /\ \E k \in 1..4 : \E p \in points : p.chunk_index = k - 1

\* C30: when the per-chunk loop ends, the list it returns has one entry per
\* valid chunk, entry i being the vector of chunk i or null; and every
\* point in the vector store carries the vector computed from its own text.
C30_OneEntryPerChunk ==
    /\ \A j \in 1..Len(jobs) :
           (runs[j].pc = "persist" /\ runs[j].i > 0) =>
               /\ Len(runs[j].embeddings) = Len(JobChunks(j))
               /\ \A k \in 1..Len(runs[j].embeddings) :
                      runs[j].embeddings[k] \in {NullVec, Vec(JobChunks(j)[k])}
    /\ \A p \in points : p.vector = p.page_content

\* C31: a record whose status is 'completed' keeps that status and its
\* chunk count in every step, whoever takes it.
C31_CompletedIsFinal ==
    [][\A i \in 1..Len(records) :
          records[i].status = "completed" =>
              /\ records'[i].status = "completed"
              /\ records'[i].chunk_count = records[i].chunk_count]_vars

\* C32: whenever a record is 'processing', the job it names is in the
\* queue and is waiting or active.
C32_ProcessingHasLiveJob ==
    \A i \in 1..Len(records) :
        records[i].status = "processing" =>
            /\ JobExists(records[i].job_id)
            /\ Live(records[i].job_id)

\* C33: a job that is failed has no point of its run in the vector store.
C33_FailedRunStoredNothing ==
    \A j \in 1..Len(jobs) :
        jobs[j].state = "failed" => {p \in points : p.id[1] = j} = {}

\* C34: whenever a record is 'completed', its chunk count is the number of
\* points in the vector store that carry the record's content hash.
C34_CountMatchesStore ==
    \A i \in 1..Len(records) :
        records[i].status = "completed" =>
            records[i].chunk_count =
                Cardinality({p \in points :
                                p.content_hash = records[i].content_hash})

\* C35: whenever a record is 'failed', the object under the key that the
\* jobs of its hash carry -- every job is added for an uploaded object --
\* is in the Content Store.
C35_FailedKeepsObject ==
    \A i \in 1..Len(records) :
        records[i].status = "failed" =>
            \A j \in JobsOf(records[i].content_hash) :
                jobs[j].data.objectKey \in objects

\* C36: a step of the run of a job whose payload hash is H inserts and
\* removes no record and changes only records of H; it adds only points
\* whose payload carries H and the job's object key, and removes none; it
\* uploads no object and deletes none but the one under the job's own key.
C36_RunTouchesOwnHashOnly ==
    [][\A j \in 1..Len(jobs) :
          runs'[j] # runs[j] =>
              /\ Len(records') = Len(records)
              /\ \A i \in 1..Len(records) :
                     records'[i] # records[i] =>
                         records[i].content_hash = jobs[j].data.fileHash
              /\ points \subseteq points'
              /\ \A p \in points' \ points :
                     /\ p.content_hash = jobs[j].data.fileHash
                     /\ p.r2_object_key = jobs[j].data.objectKey
              /\ objects' \subseteq objects
              /\ objects \ objects' \subseteq {jobs[j].data.objectKey}]_vars

\* A job of h1 has completed, with points stored and its object deleted,
\* while the record of h2 is still 'processing' and its object in place.
C36_Witness ==
    \E j \in 1..Len(jobs) :
        /\ jobs[j].data.fileHash = "h1" /\ jobs[j].state = "completed"
        /\ jobs[j].data.objectKey \notin objects
        /\ \E p \in points : p.content_hash = "h1"
        /\ findByHash("h2").status = "processing"
        /\ findByHash("h2").r2_object_key \in objects

====
